---------------------------- MODULE Spec2Model ----------------------------
(***************************************************************************)
(* TripBuddy (src/TripBuddy.py): a Streamlit form that scrapes attractions *)
(* and hotels for a destination, filters the attractions by keyword, draws *)
(* randomized costs and lays the attractions out day by day.               *)
(*                                                                         *)
(* Text is modelled as a sequence of one-character strings, so that        *)
(* lower-casing, substring search and the regular expressions of the code  *)
(* are computed, not assumed.  Money is an integer number of rupees; the   *)
(* two values the code holds as floats with two decimals (Shopping and     *)
(* Total Cost) are integers counted in hundredths of a rupee.  Hotel       *)
(* ratings are integers counted in tenths.                                 *)
(***************************************************************************)
EXTENDS Integers, Sequences, FiniteSets

(***************************************************************************)
(* Bounds of the model.                                                    *)
(***************************************************************************)
\* random draws are taken at the ends of their range and every stride-th value between
RatingStride == 13
DrawStride == 1400
\* the longest trip, the longest attractions page, the longest run of listing cards
MaxDays == 3
MaxHeadings == 4
MaxRun == 11

(***************************************************************************)
(* Characters and the string operations of Python the code uses.           *)
(***************************************************************************)
UpperChars == <<"A","B","C","D","E","F","G","H","I","J","K","L","M",
                "N","O","P","Q","R","S","T","U","V","W","X","Y","Z">>
LowerChars == <<"a","b","c","d","e","f","g","h","i","j","k","l","m",
                "n","o","p","q","r","s","t","u","v","w","x","y","z">>
DigitChars == <<"0","1","2","3","4","5","6","7","8","9">>
Rupee == "₹"

IsUpper(c) == \E i \in 1..26 : UpperChars[i] = c
IsLower(c) == \E i \in 1..26 : LowerChars[i] = c
IsAlpha(c) == IsUpper(c) \/ IsLower(c)
IsDigit(c) == \E i \in 1..10 : DigitChars[i] = c
IsSpace(c) == c \in {" ", "\t", "\n"}
DigitValue(c) == (CHOOSE i \in 1..10 : DigitChars[i] = c) - 1

ToLower(c) == IF IsUpper(c) THEN LowerChars[CHOOSE i \in 1..26 : UpperChars[i] = c] ELSE c
ToUpper(c) == IF IsLower(c) THEN UpperChars[CHOOSE i \in 1..26 : LowerChars[i] = c] ELSE c

\* str.lower()
Lower(s) == [i \in 1..Len(s) |-> ToLower(s[i])]
\* str.title(): a letter is upper-cased after a non-letter, lower-cased after a letter
Title(s) == [i \in 1..Len(s) |->
               IF i = 1 \/ ~IsAlpha(s[i-1]) THEN ToUpper(s[i]) ELSE ToLower(s[i])]
\* str.replace(from, to) for one-character arguments
Replace(s, from, to) == [i \in 1..Len(s) |-> IF s[i] = from THEN to ELSE s[i]]
\* s[i:] in Python terms, i counted from 0
DropFirst(s, n) == SubSeq(s, n + 1, Len(s))
\* the number of leading white-space characters, and of leading digits
LeadingSpaces(s) ==
    IF \A i \in 1..Len(s) : IsSpace(s[i]) THEN Len(s)
    ELSE (CHOOSE i \in 1..Len(s) : ~IsSpace(s[i]) /\ \A j \in 1..(i-1) : IsSpace(s[j])) - 1
LeadingDigits(s) ==
    IF \A i \in 1..Len(s) : IsDigit(s[i]) THEN Len(s)
    ELSE (CHOOSE i \in 1..Len(s) : ~IsDigit(s[i]) /\ \A j \in 1..(i-1) : IsDigit(s[j])) - 1
TrailingSpaces(s) ==
    IF \A i \in 1..Len(s) : IsSpace(s[i]) THEN Len(s)
    ELSE Len(s) - (CHOOSE i \in 1..Len(s) : ~IsSpace(s[i]) /\ \A j \in (i+1)..Len(s) : IsSpace(s[j]))
\* str.strip()
Strip(s) ==
    LET l == LeadingSpaces(s)
    IN  IF l = Len(s) THEN <<>> ELSE SubSeq(s, l + 1, Len(s) - TrailingSpaces(s))
\* kw in s
Contains(kw, s) == \E i \in 0..(Len(s) - Len(kw)) : SubSeq(s, i + 1, i + Len(kw)) = kw
\* the elements of a sequence
Range(s) == {s[i] : i \in 1..Len(s)}

(***************************************************************************)
(* The literal data of the program.                                        *)
(***************************************************************************)
\* the options of the multiselect (line 147) and of the radio (line 148)
Categories == {"all", "historical", "fun", "museum", "nature"}
FoodTypes == {"vegetarian", "non-vegetarian"}

\* category_keywords, lines 89-94
category_keywords ==
    [historical |-> <<<<"f","o","r","t">>,
                     <<"p","a","l","a","c","e">>,
                     <<"t","e","m","p","l","e">>,
                     <<"m","o","n","u","m","e","n","t">>,
                     <<"h","e","r","i","t","a","g","e">>,
                     <<"g","a","t","e">>,
                     <<"t","o","m","b">>>>,
     fun |-> <<<<"b","e","a","c","h">>,
              <<"p","a","r","k">>,
              <<"z","o","o">>,
              <<"a","m","u","s","e","m","e","n","t">>,
              <<"i","s","l","a","n","d">>,
              <<"w","a","t","e","r">>,
              <<"l","a","k","e">>>>,
     museum |-> <<<<"m","u","s","e","u","m">>,
                 <<"g","a","l","l","e","r","y">>,
                 <<"m","e","m","o","r","i","a","l">>,
                 <<"e","x","h","i","b","i","t","i","o","n">>,
                 <<"c","e","n","t","r","e">>,
                 <<"a","r","t">>>>,
     nature |-> <<<<"h","i","l","l">>,
                 <<"m","o","u","n","t","a","i","n">>,
                 <<"v","a","l","l","e","y">>,
                 <<"g","a","r","d","e","n">>,
                 <<"w","i","l","d","l","i","f","e">>,
                 <<"f","o","r","e","s","t">>,
                 <<"s","a","n","c","t","u","a","r","y">>>>]
\* category_keywords.get(pref, []): "all" has no entry
KeywordsOf(pref) == IF pref \in DOMAIN category_keywords THEN category_keywords[pref] ELSE <<>>

\* the default attractions, line 112
DefaultAttractions ==
    <<<<"L","o","c","a","l"," ","M","a","r","k","e","t"," ","V","i","s","i","t">>,
      <<"C","i","t","y"," ","P","a","r","k">>,
      <<"S","u","n","s","e","t"," ","P","o","i","n","t">>,
      <<"C","u","l","t","u","r","a","l"," ","W","a","l","k">>>>

\* the fallback hotels, lines 72-76 (rating in tenths)
FallbackHotels ==
    <<[name |-> <<"B","u","d","g","e","t"," ","S","t","a","y">>, price |-> 1200, rating |-> 39],
      [name |-> <<"H","o","t","e","l"," ","C","o","m","f","o","r","t"," ","I","n","n">>,
       price |-> 1400, rating |-> 42],
      [name |-> <<"C","i","t","y"," ","L","o","d","g","e">>, price |-> 1000, rating |-> 40]>>

(***************************************************************************)
(* Optional values (None, a missing tag, a failed match) are sequences of  *)
(* length 0; a present value v is <<v>>.                                   *)
(***************************************************************************)
None == <<>>
Some(v) == <<v>>
Min(a, b) == IF a <= b THEN a ELSE b
Max(a, b) == IF a >= b THEN a ELSE b
\* s[lo:hi] of Python (0-based, hi excluded, both clamped to the length)
Slice(s, lo, hi) == SubSeq(s, Min(lo, Len(s)) + 1, Min(hi, Len(s)))

(***************************************************************************)
(* The HTTP exchange.  A response is what requests.get gives back:         *)
(*   kind "error"  requests.get raises (no connection, timeout)            *)
(*   kind "http"   a response with a status; for status 200, whether the   *)
(*                 HTML parser raises on the body, the texts of the        *)
(*                 heading tags (attractions page) and the listing cards   *)
(*                 (hotels page).                                          *)
(* A card is [name_tag, price_tag, fragments]: the stripped text of the    *)
(* first name tag and of the first price tag (None when the selector finds *)
(* nothing) and the card's text nodes in document order.                   *)
(***************************************************************************)
NetworkError == [kind |-> "error", status |-> 0, parser_raises |-> FALSE,
                 headings |-> <<>>, cards |-> <<>>]
HttpResponse(st, raises, hs, cs) ==
    [kind |-> "http", status |-> st, parser_raises |-> raises, headings |-> hs, cards |-> cs]

\* the URL of a page: the slug of line 13 / line 34 and the page's file name
Slug(dest) == Replace(Lower(dest), " ", "-")
AttractionsUrl(dest) == [slug |-> Slug(dest), page |-> "sightseeing-and-things-to-do.html"]
HotelsUrl(dest) == [slug |-> Slug(dest), page |-> "hotels-where-to-stay.html"]

(***************************************************************************)
(* scrape_holidify_attractions, lines 11-27                                *)
(***************************************************************************)
\* re.sub(r"^\d+\.\s*", "", a)
StripOrdinal(a) ==
    LET n == LeadingDigits(a)
    IN  IF n >= 1 /\ n < Len(a) /\ a[n + 1] = "."
        THEN LET rest == DropFirst(a, n + 1) IN DropFirst(rest, LeadingSpaces(rest))
        ELSE a
\* the loop of lines 20-24
CleanAttractions(hs) ==
    LET stripped == [i \in 1..Len(hs) |-> Strip(StripOrdinal(hs[i]))]
        Keep(a) == Len(a) > 2
    IN  SelectSeq(stripped, Keep)
\* the value returned for a response; no outcome raises (lines 12, 26-27)
scrape_holidify_attractions(resp) ==
    IF resp.kind = "error" THEN <<>>
    ELSE IF resp.status # 200 THEN <<>>
    ELSE IF resp.parser_raises THEN <<>>
    ELSE CleanAttractions(resp.headings)

(***************************************************************************)
(* scrape_holidify_hotels, lines 32-81                                     *)
(***************************************************************************)
IsPriceChar(c) == IsDigit(c) \/ c = ","
\* where the group of r"₹\s?([\d,]+)" starts for the ₹ at position i (0: no match there)
GroupStart(text, i) ==
    IF i + 1 <= Len(text) /\ IsPriceChar(text[i + 1]) THEN i + 1
    ELSE IF i + 2 <= Len(text) /\ IsSpace(text[i + 1]) /\ IsPriceChar(text[i + 2]) THEN i + 2
    ELSE 0
\* re.search(r"₹\s?([\d,]+)", text).group(1), or None
PriceSearch(text) ==
    LET at == {i \in 1..Len(text) : text[i] = Rupee /\ GroupStart(text, i) # 0}
    IN  IF at = {} THEN None
        ELSE LET i == CHOOSE k \in at : \A j \in at : k <= j
                 start == GroupStart(text, i)
                 rest == DropFirst(text, start - 1)
                 n == IF \A k \in 1..Len(rest) : IsPriceChar(rest[k]) THEN Len(rest)
                      ELSE (CHOOSE k \in 1..Len(rest) :
                              ~IsPriceChar(rest[k]) /\ \A j \in 1..(k-1) : IsPriceChar(rest[j])) - 1
             IN  Some(SubSeq(rest, 1, n))
\* group.replace(",", "")
RemoveCommas(g) == LET NotComma(c) == c # "," IN SelectSeq(g, NotComma)
\* int(digits) for a non-empty string of digits; int("") raises ValueError
RECURSIVE ParseInt(_)
ParseInt(ds) ==
    IF ds = <<>> THEN 0
    ELSE 10 * ParseInt(SubSeq(ds, 1, Len(ds) - 1)) + DigitValue(ds[Len(ds)])
IntRaises(ds) == ds = <<>>
\* re.search(r"(\d\.\d)", text) as tenths, or None
RatingSearch(text) ==
    LET at == {i \in 1..(Len(text) - 2) :
                 IsDigit(text[i]) /\ text[i + 1] = "." /\ IsDigit(text[i + 2])}
    IN  IF at = {} THEN None
        ELSE LET i == CHOOSE k \in at : \A j \in at : k <= j
             IN  Some(10 * DigitValue(text[i]) + DigitValue(text[i + 2]))
\* card.get_text(): the text nodes concatenated
RECURSIVE Concat(_)
Concat(fs) == IF fs = <<>> THEN <<>> ELSE Head(fs) \o Concat(Tail(fs))
GetText(card) == Concat(card.fragments)
\* card.get_text(" ", strip=True): the non-empty stripped text nodes joined by a space
RECURSIVE JoinSpace(_)
JoinSpace(fs) ==
    IF fs = <<>> THEN <<>>
    ELSE IF Len(fs) = 1 THEN Head(fs)
    ELSE Head(fs) \o <<" ">> \o JoinSpace(Tail(fs))
GetTextStripped(card) ==
    LET stripped == [i \in 1..Len(card.fragments) |-> Strip(card.fragments[i])]
        NonEmpty(f) == f # <<>>
    IN  JoinSpace(SelectSeq(stripped, NonEmpty))
\* lines 53-55: the price match of a card
PriceMatch(card) ==
    PriceSearch(IF card.price_tag # None THEN card.price_tag[1] ELSE GetTextStripped(card))
\* line 60 raises ValueError for a card that reaches it with a group of commas only
CardRaises(card) ==
    /\ card.name_tag # None
    /\ PriceMatch(card) # None
    /\ IntRaises(RemoveCommas(PriceMatch(card)[1]))
\* lines 47-58: the cards that reach line 60
HasNameAndPrice(card) == card.name_tag # None /\ PriceMatch(card) # None
CardPrice(card) == ParseInt(RemoveCommas(PriceMatch(card)[1]))
\* mutant: the whole budget as the ceiling
WithinDailyBudget_Total(price, budget) == price <= budget
\* line 42 and line 67: price <= budget * 0.50
WithinDailyBudget(price, budget) == 2 * price <= budget

\* round(random.uniform(3.5, 4.8), 1) in tenths, line 64: the draws the model takes
RandomRatings == {r \in 35..48 : (r - 35) % RatingStride = 0} \cup {48}
RatingsOf(card) ==
    IF RatingSearch(GetText(card)) # None THEN {RatingSearch(GetText(card))[1]}
    ELSE RandomRatings
\* lines 45-68: the cards appended to valid_hotels, in document order
ValidCards(cards, budget) ==
    LET Valid(c) == HasNameAndPrice(c) /\ WithinDailyBudget(CardPrice(c), budget)
    IN  SelectSeq(cards, Valid)
\* the lists valid_hotels may be after the loop, one per outcome of the rating draws
RECURSIVE HotelLists(_)
HotelLists(cs) ==
    IF cs = <<>> THEN {<<>>}
    ELSE {<<[name |-> Head(cs).name_tag[1], price |-> CardPrice(Head(cs)), rating |-> r]>> \o rest :
            r \in RatingsOf(Head(cs)), rest \in HotelLists(Tail(cs))}
\* mutant: the last 10 instead of the first 10
Truncate_Last(hs) == SubSeq(hs, Max(1, Len(hs) - 9), Len(hs))
\* valid_hotels[:10], line 78
Truncate(hs) == Slice(hs, 0, 10)
\* the values the function may return for a response (days is not used by the code)
scrape_holidify_hotels(resp, budget, days) ==
    IF resp.kind = "error" THEN {<<>>}
    ELSE IF resp.status # 200 THEN {<<>>}
    ELSE IF resp.parser_raises THEN {<<>>}
    ELSE IF \E i \in 1..Len(resp.cards) : CardRaises(resp.cards[i]) THEN {<<>>}
    ELSE LET valid == ValidCards(resp.cards, budget)
         IN  IF valid = <<>> THEN {Truncate(FallbackHotels)}
             ELSE {Truncate(hs) : hs \in HotelLists(valid)}

(***************************************************************************)
(* filter_attractions, lines 85-102.  preferences is the set of the        *)
(* selected options: the code only tests it for emptiness and membership   *)
(* and iterates it into a set of keywords.                                 *)
(***************************************************************************)
\* mutant: the keywords of every category, whatever is selected
selected_keywords_Every(preferences) ==
    UNION {Range(category_keywords[c]) : c \in DOMAIN category_keywords}
selected_keywords(preferences) == UNION {Range(KeywordsOf(pref)) : pref \in preferences}
MatchesAny(a, keywords) == \E kw \in keywords : Contains(kw, Lower(a))
\* mutant: "all" is not treated apart
filter_attractions_NoAll(as, preferences) ==
    IF preferences = {} THEN as
    ELSE LET Keep(a) == MatchesAny(a, selected_keywords(preferences))
         IN  SelectSeq(as, Keep)
filter_attractions(as, preferences) ==
    IF preferences = {} \/ "all" \in preferences THEN as
    ELSE LET Keep(a) == MatchesAny(a, selected_keywords(preferences))
         IN  SelectSeq(as, Keep)

(***************************************************************************)
(* generate_plan, lines 106-135                                            *)
(***************************************************************************)
\* random.randint(lo, hi): the draws the model takes, both ends included
RandInt(lo, hi) == {x \in lo..hi : (x - lo) % DrawStride = 0} \cup {hi}
\* line 116 and line 117
FoodCosts(ft) == IF ft = "vegetarian" THEN RandInt(400, 700) ELSE RandInt(600, 900)
TransportCosts == RandInt(600, 2000)
\* round(budget * 0.30, 2), in hundredths of a rupee
Shopping(b) == 30 * b
\* mutant: food counted for one day
TotalCost_FoodOnce(hotel_cost, food_cost, transport, n, b) ==
    100 * ((hotel_cost * n) + food_cost + transport) + Shopping(b)
\* lines 119-120, in hundredths of a rupee
TotalCost(hotel_cost, food_cost, transport, n, b) ==
    100 * ((hotel_cost * n) + (food_cost * n) + transport) + Shopping(b)
\* lines 111-112
OrDefault(as) == IF as = <<>> THEN DefaultAttractions ELSE as
\* random.shuffle: every rearrangement of the list
Permutations(as) ==
    {[i \in 1..Len(as) |-> as[p[i]]] :
        p \in {q \in [1..Len(as) -> 1..Len(as)] : \A i, j \in 1..Len(as) : q[i] = q[j] => i = j}}
\* mutant: the quotient rounded up
PerDay_Ceil(count, n) == Max(1, (count + n - 1) \div n)
\* line 123
PerDay(count, n) == Max(1, count \div n)
\* mutant: each slice runs one position too far
Itinerary_Overlap(as, n) ==
    [k \in {i + 1 : i \in 0..(n - 1)} |->
        Slice(as, (k - 1) * PerDay(Len(as), n), k * PerDay(Len(as), n) + 1)]
\* line 124: the key "Day k" is k
Itinerary(as, n) ==
    [k \in {i + 1 : i \in 0..(n - 1)} |->
        Slice(as, (k - 1) * PerDay(Len(as), n), k * PerDay(Len(as), n))]
\* the record of lines 126-135
Plan(dest, hotel, food_cost, transport, b, n, as) ==
    [Destination |-> dest, Hotel |-> hotel, HotelCost |-> hotel.price,
     FoodCost |-> food_cost, Transport |-> transport, Shopping |-> Shopping(b),
     TotalCost |-> TotalCost(hotel.price, food_cost, transport, n, b),
     Itinerary |-> Itinerary(as, n)]

(***************************************************************************)
(* The inputs the model draws: what the user types and what the site       *)
(* answers.                                                                *)
(***************************************************************************)
\* the destination as typed (line 144 applies .title() to it)
TypedDestinations == {<<>>, <<"g","o","a">>, <<"n","e","w"," ","d","e","l","h","i">>}
\* budget is an integer >= 1000 (line 145), days an integer >= 1 (line 146)
Budgets == {1000, 2000, 2800, 20000}
DaysChoices == 1..MaxDays

\* heading texts of an attractions page
HeadingPool ==
    <<<<"1","."," ","O","l","d"," ","F","o","r","t">>,
      <<"B","a","g","a"," ","B","e","a","c","h">>,
      <<"1","2",".","Z","o","o">>,
      <<"3","."," ","G","o">>,
      <<"S","p","i","c","e"," ","H","i","l","l">>,
      <<"A","R","T"," ","C","a","f","e">>,
      <<"O","l","d"," ","T","o","w","n">>>>
\* the page of n headings taken from the pool in order, starting after the first b
HeadingPage(n, b) == [i \in 1..n |-> HeadingPool[((i - 1 + b) % Len(HeadingPool)) + 1]]
HeadingPages == {HeadingPage(n, b) : n \in 0..MaxHeadings, b \in 0..(Len(HeadingPool) - 1)}

\* n as a decimal numeral
RECURSIVE Numeral(_)
Numeral(n) == IF n < 10 THEN <<DigitChars[n + 1]>>
              ELSE Numeral(n \div 10) \o <<DigitChars[(n % 10) + 1]>>
\* listing cards: priced and rated; without a name tag; priced only in the card's
\* text and unrated; expensive; priced without the currency sign; a currency sign
\* followed by a comma only
CardPool ==
    <<[name_tag |-> Some(<<"S","e","a"," ","I","n","n">>), price_tag |-> Some(<<Rupee,"1",",","2","0","0">>),
       fragments |-> <<<<"S","e","a"," ","I","n","n">>, <<Rupee,"1",",","2","0","0">>, <<"4",".","2">>>>],
      [name_tag |-> None, price_tag |-> Some(<<Rupee,"9","0","0">>),
       fragments |-> <<<<Rupee,"9","0","0">>, <<"3",".","9">>>>],
      [name_tag |-> Some(<<"H","u","t">>), price_tag |-> None,
       fragments |-> <<<<"H","u","t">>, <<" ","f","r","o","m"," ",Rupee," ","4","5","0"," ">>, <<"a"," ","n","i","g","h","t">>>>],
      [name_tag |-> Some(<<"P","a","l","a","c","e">>), price_tag |-> Some(<<Rupee," ","1","5",",","0","0","0">>),
       fragments |-> <<<<"P","a","l","a","c","e">>, <<Rupee," ","1","5",",","0","0","0">>, <<"4",".","8">>>>],
      [name_tag |-> Some(<<"N","o","o","k">>), price_tag |-> Some(<<"1",",","0","0","0">>),
       fragments |-> <<<<"N","o","o","k">>, <<"1",",","0","0","0">>>>],
      [name_tag |-> Some(<<"V","o","i","d">>), price_tag |-> Some(<<Rupee,",">>),
       fragments |-> <<<<"V","o","i","d">>, <<Rupee,",">>>>]>>
\* the i-th card of a run of rated cards priced 100, 200, ...
RunCard(i) ==
    [name_tag |-> Some(<<"H">> \o Numeral(i)), price_tag |-> Some(<<Rupee>> \o Numeral(100 * i)),
     fragments |-> <<<<"H">> \o Numeral(i), <<Rupee>> \o Numeral(100 * i), <<"4",".","0">>>>]
CardRun(k) == [i \in 1..k |-> RunCard(i)]
\* at most one card of the pool
PoolCards == {<<>>} \cup {<<CardPool[i]>> : i \in 1..Len(CardPool)}
\* a hotels page: a pool card or none, a run of cards, a pool card or none
CardPages == {h \o CardRun(k) \o t : h \in PoolCards, k \in 0..MaxRun, t \in PoolCards}

\* what requests.get may give back
FailedResponses ==
    {NetworkError, HttpResponse(404, FALSE, <<>>, <<>>), HttpResponse(200, TRUE, <<>>, <<>>)}
AttractionResponses ==
    FailedResponses \cup {HttpResponse(200, FALSE, hs, <<>>) : hs \in HeadingPages}
HotelResponses ==
    FailedResponses \cup {HttpResponse(200, FALSE, <<>>, cs) : cs \in CardPages}

(***************************************************************************)
(* The state of one run of the script.  Streamlit runs the script from the *)
(* top for every submission, so a submission starts from fresh locals.     *)
(*   pc           "form": waiting for a submission; "attractions",         *)
(*                "hotels", "filter", "plan": inside generate_plan, before *)
(*                line 107, 108, 109, 111; "done": the plan is rendered;   *)
(*                "warned": the warning of line 153 is shown; "raised": an *)
(*                exception left generate_plan                             *)
(*   destination .. food_type   the values of the form, lines 144-148      *)
(*   warning      st.warning was called                                    *)
(*   requests     the URLs requests.get was called with, in order          *)
(*   attr_resp, hotel_resp      what the two GETs gave back (None before)  *)
(*   scraped      the value of line 107                                    *)
(*   hotels       the value of line 108                                    *)
(*   filtered     the value of line 109                                    *)
(*   attractions  the list after lines 111-112 and the shuffle of line 122 *)
(*   plan         the value generate_plan returned (None before)           *)
(***************************************************************************)
VARIABLES pc, destination, budget, days, preferences, food_type, warning,
          requests, attr_resp, hotel_resp, scraped, hotels, filtered, attractions, plan

vars == <<pc, destination, budget, days, preferences, food_type, warning,
          requests, attr_resp, hotel_resp, scraped, hotels, filtered, attractions, plan>>
form == <<destination, budget, days, preferences, food_type>>

FreshRun ==
    /\ warning = FALSE
    /\ requests = <<>>
    /\ attr_resp = None
    /\ hotel_resp = None
    /\ scraped = <<>>
    /\ hotels = <<>>
    /\ filtered = <<>>
    /\ attractions = <<>>
    /\ plan = None

\* the form before any input: the widgets' defaults
Init ==
    /\ pc = "form"
    /\ destination = <<>>
    /\ budget = 1000
    /\ days = 1
    /\ preferences = {}
    /\ food_type = "vegetarian"
    /\ FreshRun

\* mutant: the destination is not checked
Submit_NoCheck(d, b, n, p, f) ==
    /\ pc = "form"
    /\ destination' = Title(d)
    /\ budget' = b
    /\ days' = n
    /\ preferences' = p
    /\ food_type' = f
    /\ requests' = <<>>
    /\ attr_resp' = None
    /\ hotel_resp' = None
    /\ scraped' = <<>>
    /\ hotels' = <<>>
    /\ filtered' = <<>>
    /\ attractions' = <<>>
    /\ plan' = None
    /\ warning' = FALSE
    /\ pc' = "attractions"
\* lines 144-153: the form is submitted and the script runs from the top
Submit(d, b, n, p, f) ==
    /\ pc = "form"
    /\ destination' = Title(d)
    /\ budget' = b
    /\ days' = n
    /\ preferences' = p
    /\ food_type' = f
    /\ requests' = <<>>
    /\ attr_resp' = None
    /\ hotel_resp' = None
    /\ scraped' = <<>>
    /\ hotels' = <<>>
    /\ filtered' = <<>>
    /\ attractions' = <<>>
    /\ plan' = None
    /\ warning' = (Title(d) = <<>>)
    /\ pc' = IF Title(d) = <<>> THEN "warned" ELSE "attractions"

\* mutant: a failed GET is not caught and leaves generate_plan
ScrapeAttractions_Propagates(resp) ==
    /\ pc = "attractions"
    /\ requests' = Append(requests, AttractionsUrl(destination))
    /\ attr_resp' = Some(resp)
    /\ scraped' = scrape_holidify_attractions(resp)
    /\ pc' = IF resp.kind = "error" THEN "raised" ELSE "hotels"
    /\ UNCHANGED <<form, warning, hotel_resp, hotels, filtered, attractions, plan>>
\* line 107: scrape_holidify_attractions(destination) with one GET
ScrapeAttractions(resp) ==
    /\ pc = "attractions"
    /\ requests' = Append(requests, AttractionsUrl(destination))
    /\ attr_resp' = Some(resp)
    /\ scraped' = scrape_holidify_attractions(resp)
    /\ pc' = "hotels"
    /\ UNCHANGED <<form, warning, hotel_resp, hotels, filtered, attractions, plan>>

\* line 108: scrape_holidify_hotels(destination, budget, days) with one GET
ScrapeHotels(resp) ==
    /\ pc = "hotels"
    /\ requests' = Append(requests, HotelsUrl(destination))
    /\ hotel_resp' = Some(resp)
    /\ hotels' \in scrape_holidify_hotels(resp, budget, days)
    /\ pc' = "filter"
    /\ UNCHANGED <<form, warning, attr_resp, scraped, filtered, attractions, plan>>

\* line 109: filter_attractions(attractions, preferences)
FilterAttractions ==
    /\ pc = "filter"
    /\ filtered' = filter_attractions(scraped, preferences)
    /\ pc' = "plan"
    /\ UNCHANGED <<form, warning, requests, attr_resp, hotel_resp, scraped, hotels,
                   attractions, plan>>

\* lines 111-135 and the rendering of lines 158-197; random.choice of line 114
\* raises IndexError on an empty list, which nothing catches
GeneratePlan ==
    /\ pc = "plan"
    /\ IF hotels = <<>>
       THEN /\ attractions' = OrDefault(filtered)
            /\ plan' = None
            /\ pc' = "raised"
       ELSE /\ \E hotel \in Range(hotels), food_cost \in FoodCosts(food_type),
                  transport \in TransportCosts, shuffled \in Permutations(OrDefault(filtered)) :
                  /\ attractions' = shuffled
                  /\ plan' = Some(Plan(destination, hotel, food_cost, transport,
                                       budget, days, shuffled))
            /\ pc' = "done"
    /\ UNCHANGED <<form, warning, requests, attr_resp, hotel_resp, scraped, hotels, filtered>>

\* the run of the script ends (after the warning, the rendering or the uncaught
\* exception): its locals are gone, the widgets keep their values
EndRun ==
    /\ pc \in {"warned", "done", "raised"}
    /\ pc' = "form"
    /\ warning' = FALSE
    /\ requests' = <<>>
    /\ attr_resp' = None
    /\ hotel_resp' = None
    /\ scraped' = <<>>
    /\ hotels' = <<>>
    /\ filtered' = <<>>
    /\ attractions' = <<>>
    /\ plan' = None
    /\ UNCHANGED form

\* the inputs of the runs of the whole script
RunBudgets == {1000, 20000}
RunPreferences == {{}, {"nature"}, {"fun", "museum"}}
RunAttractionResponses ==
    FailedResponses \cup
    {HttpResponse(200, FALSE, HeadingPage(n, 0), <<>>) : n \in {0, MaxHeadings}}
RunCardPages == {<<>>, <<CardPool[6]>>, <<CardPool[1], CardPool[3]>>}
RunHotelResponses ==
    FailedResponses \cup {HttpResponse(200, FALSE, <<>>, cs) : cs \in RunCardPages}

Next ==
    \/ \E d \in TypedDestinations, b \in RunBudgets, n \in DaysChoices,
          p \in RunPreferences, f \in FoodTypes : Submit(d, b, n, p, f)
    \/ \E resp \in RunAttractionResponses : ScrapeAttractions(resp)
    \/ \E resp \in RunHotelResponses : ScrapeHotels(resp)
    \/ FilterAttractions
    \/ GeneratePlan
    \/ EndRun

Spec == Init /\ [][Next]_vars

TypeOK ==
    /\ pc \in {"form", "attractions", "hotels", "filter", "plan", "done", "warned", "raised"}
    /\ budget >= 1000
    /\ days >= 1
    /\ preferences \subseteq Categories
    /\ food_type \in FoodTypes
    /\ Len(requests) <= 2
    /\ Len(plan) <= 1

(***************************************************************************)
(* scrape_holidify_hotels on its own: generate_plan has reached line 108   *)
(* (the attractions request found no connection) and the site answers the  *)
(* hotels request with any of the modelled responses.                      *)
(***************************************************************************)
InitHotels ==
    /\ pc = "hotels"
    /\ destination = Title(<<"g","o","a">>)
    /\ budget \in Budgets
    /\ days \in DaysChoices
    /\ preferences = {}
    /\ food_type = "vegetarian"
    /\ warning = FALSE
    /\ requests = <<AttractionsUrl(destination)>>
    /\ attr_resp = Some(NetworkError)
    /\ hotel_resp = None
    /\ scraped = <<>>
    /\ hotels = <<>>
    /\ filtered = <<>>
    /\ attractions = <<>>
    /\ plan = None
NextHotels == \E resp \in HotelResponses : ScrapeHotels(resp)
SpecHotels == InitHotels /\ [][NextHotels]_vars

(***************************************************************************)
(* filter_attractions on its own: generate_plan has reached line 109 with  *)
(* the attractions of any modelled page and any selection of categories.   *)
(***************************************************************************)
InitFilter ==
    /\ pc = "filter"
    /\ destination = Title(<<"g","o","a">>)
    /\ budget = 20000
    /\ days = 1
    /\ preferences \in SUBSET Categories
    /\ food_type = "vegetarian"
    /\ warning = FALSE
    /\ requests = <<AttractionsUrl(destination), HotelsUrl(destination)>>
    /\ \E hs \in HeadingPages :
          /\ attr_resp = Some(HttpResponse(200, FALSE, hs, <<>>))
          /\ scraped = scrape_holidify_attractions(HttpResponse(200, FALSE, hs, <<>>))
    /\ hotel_resp = Some(HttpResponse(200, FALSE, <<>>, <<>>))
    /\ hotels = FallbackHotels
    /\ filtered = <<>>
    /\ attractions = <<>>
    /\ plan = None
NextFilter == FilterAttractions
SpecFilter == InitFilter /\ [][NextFilter]_vars

(***************************************************************************)
(* Properties.                                                             *)
(***************************************************************************)
Goa == <<"G","o","a">>
\* a GET that failed: no response, or a response with a status other than 200
FetchFailed(resp) == resp.kind = "error" \/ resp.status # 200
\* a GET answered with status 200
Status200(resp) == resp.kind = "http" /\ resp.status = 200
\* the card shows a name and a currency-prefixed price
Listed(card) == card.name_tag # None /\ PriceMatch(card) # None
\* the card's price has no digit: nothing to convert to a number
Unparsable(card) == Listed(card) /\ \A i \in 1..Len(PriceMatch(card)[1]) : PriceMatch(card)[1][i] = ","
\* the positions of the cards that qualify under budget b
Qualifying(cards, b) ==
    {i \in 1..Len(cards) :
        Listed(cards[i]) /\ ~Unparsable(cards[i]) /\ 2 * CardPrice(cards[i]) <= b}
\* the hotels response was a page the code read to the end
PageRead(resp) ==
    /\ Status200(resp)
    /\ ~resp.parser_raises
    /\ \A i \in 1..Len(resp.cards) : ~Unparsable(resp.cards[i])
Occurrences(s, x) == Cardinality({i \in 1..Len(s) : s[i] = x})
IsPermutation(s, t) ==
    /\ Len(s) = Len(t)
    /\ \A x \in Range(s) \cup Range(t) : Occurrences(s, x) = Occurrences(t, x)
RECURSIVE SumLen(_, _)
SumLen(it, k) == IF k = 0 THEN 0 ELSE Len(it[k]) + SumLen(it, k - 1)
\* the number of attractions generate_plan lays out
Count == Len(OrDefault(filtered))

\* C1 as stated, for the pages the code reads to the end: every returned hotel costs
\* at most half the budget, and the list is the fallback list when no scraped card does
C1_Original ==
    (hotel_resp # None /\ PageRead(hotel_resp[1])) =>
        /\ \A i \in 1..Len(hotels) : 2 * hotels[i].price <= budget
        /\ (Qualifying(hotel_resp[1].cards, budget) = {} => hotels = FallbackHotels)
\* C1 amended: on a page read to the end, the list is the fallback list when no card
\* costs at most half the budget, and otherwise every entry costs at most half the
\* budget; the fallback prices are within half the budget only from a budget of 2800
\* on; a failed request or a page that could not be read gives the empty list
C1_Hotels ==
    hotel_resp # None =>
        LET resp == hotel_resp[1]
        IN  /\ (PageRead(resp) /\ Qualifying(resp.cards, budget) = {} => hotels = FallbackHotels)
            /\ (PageRead(resp) /\ Qualifying(resp.cards, budget) # {}
                  => Len(hotels) >= 1 /\ \A i \in 1..Len(hotels) : 2 * hotels[i].price <= budget)
            /\ (~PageRead(resp) => hotels = <<>>)
            /\ (budget >= 2800 => \A i \in 1..Len(hotels) : 2 * hotels[i].price <= budget)
\* C1 witness: a page none of whose cards is within a budget of 1000 gives the
\* fallback hotels, each above half the budget
C1_Witness ==
    /\ hotel_resp # None
    /\ budget = 1000
    /\ hotel_resp[1].cards # <<>>
    /\ hotels = FallbackHotels
    /\ \A i \in 1..Len(hotels) : 2 * hotels[i].price > budget

\* C2 as stated: the itinerary has the keys Day 1 .. Day days, each day holds at most
\* floor(count/days) attractions and all days together at most count
C2_Original ==
    plan # None =>
        LET it == plan[1].Itinerary
        IN  /\ DOMAIN it = 1..days
            /\ \A k \in DOMAIN it : Len(it[k]) <= Count \div days
            /\ SumLen(it, days) <= Count
\* C2 amended: each day holds at most max(1, floor(count/days)) attractions
C2_Itinerary ==
    plan # None =>
        LET it == plan[1].Itinerary
        IN  /\ DOMAIN it = 1..days
            /\ \A k \in DOMAIN it : Len(it[k]) <= Max(1, Count \div days)
            /\ SumLen(it, days) <= Count
\* C2 witness: fewer attractions than days, and Day 1 holds one
C2_Witness ==
    /\ plan # None
    /\ Count < days
    /\ Len(plan[1].Itinerary[1]) = 1

\* C3 as stated: with both requests failed, the Goa request completes with the default
\* attractions, one a day for 3 days, a fallback hotel and costs in their ranges
C3_Degrades ==
    (/\ pc \in {"done", "raised"}
     /\ FetchFailed(attr_resp[1]) /\ FetchFailed(hotel_resp[1])
     /\ destination = Goa /\ budget = 20000 /\ days = 3
     /\ preferences = {"nature"} /\ food_type = "vegetarian")
    => /\ pc = "done"
       /\ plan # None
       /\ IsPermutation(attractions, DefaultAttractions)
       /\ \A k \in 1..3 : Len(plan[1].Itinerary[k]) = 1
       /\ plan[1].Hotel \in Range(FallbackHotels)
       /\ plan[1].FoodCost \in 400..700
       /\ plan[1].Transport \in 600..2000
       /\ plan[1].Shopping = 600000

\* C4 as stated: for a non-empty selection, every attraction kept contains a keyword
\* of a selected category
C4_Original ==
    (pc = "plan" /\ preferences # {}) =>
        \A i \in 1..Len(filtered) :
            \E c \in preferences \cap DOMAIN category_keywords :
                \E j \in 1..Len(category_keywords[c]) :
                    Contains(category_keywords[c][j], Lower(filtered[i]))
\* C4 amended: for a non-empty selection without "all", every attraction kept
\* contains, ignoring case, a keyword of a selected category
C4_Filtered ==
    (pc = "plan" /\ preferences # {} /\ "all" \notin preferences) =>
        \A i \in 1..Len(filtered) :
            \E c \in preferences \cap DOMAIN category_keywords :
                \E j \in 1..Len(category_keywords[c]) :
                    Contains(category_keywords[c][j], Lower(filtered[i]))
\* C4 witness: a selection without "all" kept some attractions and dropped others,
\* one of those kept matching only when case is ignored
C4_Witness ==
    /\ pc = "plan"
    /\ preferences # {} /\ "all" \notin preferences
    /\ filtered # <<>>
    /\ Len(filtered) < Len(scraped)
    /\ \E i \in 1..Len(filtered) :
          \A c \in preferences : \A j \in 1..Len(category_keywords[c]) :
              ~Contains(category_keywords[c][j], filtered[i])

\* C5: an empty selection or one containing "all" returns the attractions unchanged
C5_Identity ==
    (pc = "plan" /\ (preferences = {} \/ "all" \in preferences)) => filtered = scraped
\* C5 witness: "all" selected with another category, and an attraction without any
\* keyword of that category is returned
C5_Witness ==
    /\ pc = "plan"
    /\ preferences = {"all", "nature"}
    /\ Len(filtered) >= 3
    /\ \E i \in 1..Len(filtered) :
          \A j \in 1..Len(category_keywords["nature"]) :
              ~Contains(category_keywords["nature"][j], Lower(filtered[i]))

\* C6: the plan's total is hotel*days + food*days + transport + 30% of the budget
\* (in hundredths), for the costs recorded in the plan, and the hotel cost is the
\* price of the plan's hotel, one of the hotels the fetcher returned
C6_Total ==
    plan # None =>
        /\ plan[1].TotalCost =
              100 * (plan[1].Hotel.price * days + plan[1].FoodCost * days + plan[1].Transport)
              + 30 * budget
        /\ plan[1].HotelCost = plan[1].Hotel.price
        /\ plan[1].Hotel \in Range(hotels)
\* C6 witness: a plan for 3 days on a budget of 20000 with a scraped hotel
C6_Witness ==
    /\ plan # None
    /\ days = 3
    /\ budget = 20000
    /\ plan[1].Hotel \notin Range(FallbackHotels)
    /\ plan[1].TotalCost > 100 * (plan[1].Hotel.price + plan[1].FoodCost + plan[1].Transport)
                           + 30 * budget

\* C7: an empty destination gives the warning, no request, no plan, and a request is
\* only ever issued in a run submitted with a non-empty destination
C7_EmptyDestination ==
    /\ (pc = "warned" =>
          /\ warning
          /\ destination = <<>>
          /\ requests = <<>>
          /\ attr_resp = None /\ hotel_resp = None
          /\ plan = None)
    /\ (destination = <<>> => pc \in {"form", "warned"})
    /\ (requests # <<>> => destination # <<>>)
    /\ (warning => pc = "warned")
\* C7 witness: the warning is shown after an empty destination was submitted with
\* every other field filled in
C7_Witness ==
    /\ pc = "warned"
    /\ warning
    /\ destination = <<>>
    /\ budget = 20000 /\ days = 3 /\ preferences # {}

\* C8: whatever the GET gives, both fetchers return to generate_plan, with the empty
\* list when the GET failed or parsing raised, after exactly one GET each
C8_NoRaise ==
    /\ (attr_resp # None /\ (FetchFailed(attr_resp[1]) \/ attr_resp[1].parser_raises)
          => scraped = <<>>)
    /\ (hotel_resp # None /\ ~PageRead(hotel_resp[1]) => hotels = <<>>)
    /\ (pc = "hotels" <=> (attr_resp # None /\ hotel_resp = None))
    /\ (pc \in {"filter", "plan", "done", "raised"} <=> hotel_resp # None)
    /\ (hotel_resp # None => attr_resp # None)
    /\ requests = (IF attr_resp # None THEN <<AttractionsUrl(destination)>> ELSE <<>>)
                  \o (IF hotel_resp # None THEN <<HotelsUrl(destination)>> ELSE <<>>)
\* C8 witness: no connection for the attractions, a hotels page whose price cannot be
\* converted; both fetchers returned the empty list after one GET each
C8_Witness ==
    /\ pc = "filter"
    /\ attr_resp[1].kind = "error"
    /\ Status200(hotel_resp[1]) /\ \E i \in 1..Len(hotel_resp[1].cards) : Unparsable(hotel_resp[1].cards[i])
    /\ scraped = <<>> /\ hotels = <<>>
    /\ Len(requests) = 2

\* C9 as stated, for the pages the HTML parser accepts: a status-200 page gives
\* between 1 and 10 hotels
C9_Original ==
    (hotel_resp # None /\ Status200(hotel_resp[1]) /\ ~hotel_resp[1].parser_raises)
        => Len(hotels) \in 1..10
\* C9 amended: a status-200 page gives the empty list when parsing raises (the HTML
\* parser, or the conversion of a price without digits); otherwise it gives the
\* first 10 qualifying cards in document order, or the fallback list exactly when no
\* card qualifies, so between 1 and 10 hotels
C9_FirstTen ==
    (hotel_resp # None /\ Status200(hotel_resp[1])) =>
        LET resp == hotel_resp[1]
            qual == Qualifying(resp.cards, budget)
        IN  IF ~PageRead(resp) THEN hotels = <<>>
            ELSE /\ Len(hotels) \in 1..10
                 /\ (qual = {} => hotels = FallbackHotels)
                 /\ (qual # {} =>
                       /\ Len(hotels) = Min(10, Cardinality(qual))
                       /\ \A j \in 1..Len(hotels) :
                             \E i \in qual :
                                 /\ Cardinality({k \in qual : k < i}) = j - 1
                                 /\ hotels[j].name = resp.cards[i].name_tag[1]
                                 /\ hotels[j].price = CardPrice(resp.cards[i]))
\* C9 witness: more than 10 cards qualify, after a first card that does not, and 10
\* hotels are returned
C9_Witness ==
    /\ hotel_resp # None
    /\ PageRead(hotel_resp[1])
    /\ Cardinality(Qualifying(hotel_resp[1].cards, budget)) > 10
    /\ 1 \notin Qualifying(hotel_resp[1].cards, budget)
    /\ Len(hotels) = 10

\* C10: the days, in order, make up the first min(count, days * max(1, count/days))
\* attractions of the shuffled list, which rearranges the filtered or default list;
\* with fewer attractions than days, the first count days hold one each
C10_Prefix ==
    plan # None =>
        LET it == plan[1].Itinerary
            n == Min(Count, days * Max(1, Count \div days))
        IN  /\ IsPermutation(attractions, OrDefault(filtered))
            /\ DOMAIN it = 1..days
            /\ Concat([k \in 1..days |-> it[k]]) = SubSeq(attractions, 1, n)
            /\ (Count < days =>
                  \A k \in 1..days : Len(it[k]) = IF k <= Count THEN 1 ELSE 0)
\* C10 witness: 3 attractions over 2 days, one a day, the third dropped
C10_Witness ==
    /\ plan # None
    /\ Count = 3 /\ days = 2
    /\ plan[1].Itinerary[1] = <<attractions[1]>>
    /\ plan[1].Itinerary[2] = <<attractions[2]>>

=============================================================================
